---- MODULE Spec2Model ----
(***************************************************************************)
(* vbump: semantic version bump of a package manifest followed by a        *)
(* scripted git release workflow (src/src/index.ts, src/src/cli.ts).       *)
(*                                                                         *)
(* JavaScript strings are modelled as sequences of one-character strings,  *)
(* so that split, trim, Number(), replace and template formatting are      *)
(* computed character by character.  An optional value (undefined or a     *)
(* value) is the empty sequence or a one-element sequence.                 *)
(***************************************************************************)
EXTENDS Integers, Sequences, FiniteSets, TLC

VARIABLES
  calc,         \* one application of calculateNewVersion: input, kind, result
  store,        \* manifest store operations applied so far (SpecStore)
  fs,           \* the files of the working directory, by path
  opts,         \* the parsed command line of the bump command
  configFile,   \* vbump.json: absent, malformed or an object
  bumpOptions,  \* the options object the command passes to bumpVersion
  pc,           \* position in the bump command / bumpVersion
  bv,           \* bumpVersion's locals: currentVersion, newVersion, loop index
  log,          \* git subcommands and manifest accesses issued, in order
  repo,         \* the repository: checked-out branch, commits, tags, pushes
  err,          \* the error surfaced to the caller
  result        \* the VersionInfo returned by bumpVersion

vars == <<calc, store, fs, opts, configFile, bumpOptions, pc, bv, log, repo, err, result>>

(***************************************************************************)
(* Bounds                                                                  *)
(***************************************************************************)
\* largest version component drawn as an input of calculateNewVersion
MaxNum == 10

\* number of manifest store operations applied in a row
MaxOps == 2

\* number of target branches in the configuration file with targets
MaxTargets == 2

(***************************************************************************)
(* Strings                                                                 *)
(***************************************************************************)
Digits == <<"0", "1", "2", "3", "4", "5", "6", "7", "8", "9">>

IsDigit(c) == \E i \in 1..10 : Digits[i] = c

DigitVal(c) == (CHOOSE i \in 1..10 : Digits[i] = c) - 1

\* String.prototype.trim strips white space; the model's only white space
\* character is the blank
IsSpace(c) == c = " "

RECURSIVE TrimStart(_)
TrimStart(s) ==
  IF s # <<>> /\ IsSpace(Head(s)) THEN TrimStart(Tail(s)) ELSE s

RECURSIVE TrimEnd(_)
TrimEnd(s) ==
  IF s # <<>> /\ IsSpace(s[Len(s)]) THEN TrimEnd(SubSeq(s, 1, Len(s) - 1)) ELSE s

Trim(s) == TrimEnd(TrimStart(s))

\* String.prototype.split(sep) for a one-character separator: always at
\* least one part, "" splits into [""]
RECURSIVE SplitFrom(_, _, _)
SplitFrom(s, sep, cur) ==
  IF s = <<>> THEN <<cur>>
  ELSE IF Head(s) = sep THEN <<cur>> \o SplitFrom(Tail(s), sep, <<>>)
  ELSE SplitFrom(Tail(s), sep, Append(cur, Head(s)))

Split(s, sep) == SplitFrom(s, sep, <<>>)

\* Array.prototype.join(sep)
RECURSIVE Join(_, _)
Join(parts, sep) ==
  IF parts = <<>> THEN <<>>
  ELSE IF Len(parts) = 1 THEN parts[1]
  ELSE parts[1] \o sep \o Join(Tail(parts), sep)

\* decimal digits of a natural number
RECURSIVE NatToString(_)
NatToString(n) ==
  IF n < 10 THEN <<Digits[n + 1]>>
  ELSE NatToString(n \div 10) \o <<Digits[(n % 10) + 1]>>

\* `${n}` for an integer n
NumberToString(n) == IF n < 0 THEN <<"-">> \o NatToString(0 - n) ELSE NatToString(n)

RECURSIVE DigitsValue(_, _)
DigitsValue(s, acc) ==
  IF s = <<>> THEN acc ELSE DigitsValue(Tail(s), acc * 10 + DigitVal(Head(s)))

AllDigits(s) == s # <<>> /\ \A i \in 1..Len(s) : IsDigit(s[i])

NaN == [nan |-> TRUE, n |-> 0]

\* Number(str): white space is trimmed, the empty string is 0, an optional
\* sign followed by decimal digits is that integer, anything else over the
\* model's alphabet is NaN (the alphabet has no "e", "x" or "Infinity")
Number(str) ==
  LET t == Trim(str) IN
    IF t = <<>> THEN [nan |-> FALSE, n |-> 0]
    ELSE IF AllDigits(t) THEN [nan |-> FALSE, n |-> DigitsValue(t, 0)]
    ELSE IF Head(t) = "+" /\ AllDigits(Tail(t))
      THEN [nan |-> FALSE, n |-> DigitsValue(Tail(t), 0)]
    ELSE IF Head(t) = "-" /\ AllDigits(Tail(t))
      THEN [nan |-> FALSE, n |-> 0 - DigitsValue(Tail(t), 0)]
    ELSE NaN

isNaN(x) == x.nan

\* String.prototype.replace(pattern, replacement) with a string pattern:
\* only the first occurrence is replaced
RECURSIVE IndexOfFrom(_, _, _)
IndexOfFrom(s, pat, i) ==
  IF i + Len(pat) - 1 > Len(s) THEN 0
  ELSE IF SubSeq(s, i, i + Len(pat) - 1) = pat THEN i
  ELSE IndexOfFrom(s, pat, i + 1)

Replace(s, pat, rep) ==
  LET i == IndexOfFrom(s, pat, 1) IN
    IF i = 0 THEN s
    ELSE SubSeq(s, 1, i - 1) \o rep \o SubSeq(s, i + Len(pat), Len(s))

\* optional values
None == <<>>

Some(x) == <<x>>

\* truthiness of an optional string: undefined and "" are falsy
Truthy(o) == o # None /\ o[1] # <<>>

\* a || b on optional strings
OrElse(a, b) == IF Truthy(a) THEN a ELSE b

\* a ?? b
Nullish(a, b) == IF a # None THEN a ELSE b

(***************************************************************************)
(* Results and errors                                                      *)
(***************************************************************************)
NoError == "none"

Ok(v) == [error |-> NoError, value |-> v]

Fail(e) == [error |-> e, value |-> <<>>]

(***************************************************************************)
(* calculateNewVersion                                                     *)
(***************************************************************************)
BumpTypes == {"major", "minor", "patch"}

\* the variant that forgets to reset the lower tiers
calculateNewVersion_keepLower(currentVersion, bumpType) ==
  LET parts == [i \in 1..Len(Split(currentVersion, ".")) |->
                  Number(Split(currentVersion, ".")[i])] IN
    IF Len(parts) # 3 \/ \E i \in 1..Len(parts) : isNaN(parts[i])
    THEN Fail("InvalidVersionFormat")
    ELSE LET major == parts[1].n
             minor == parts[2].n
             patch == parts[3].n
         IN CASE bumpType = "major" ->
                   Ok(Join(<<NumberToString(major + 1), NumberToString(minor),
                             NumberToString(patch)>>, <<".">>))
              [] bumpType = "minor" ->
                   Ok(Join(<<NumberToString(major), NumberToString(minor + 1),
                             NumberToString(patch)>>, <<".">>))
              [] bumpType = "patch" ->
                   Ok(Join(<<NumberToString(major), NumberToString(minor),
                             NumberToString(patch + 1)>>, <<".">>))
              [] OTHER -> Fail("InvalidBumpType")

calculateNewVersion(currentVersion, bumpType) ==
  LET parts == [i \in 1..Len(Split(currentVersion, ".")) |->
                  Number(Split(currentVersion, ".")[i])] IN
    IF Len(parts) # 3 \/ \E i \in 1..Len(parts) : isNaN(parts[i])
    THEN Fail("InvalidVersionFormat")
    ELSE LET major == parts[1].n
             minor == parts[2].n
             patch == parts[3].n
         IN CASE bumpType = "major" ->
                   Ok(Join(<<NumberToString(major + 1), <<"0">>, <<"0">>>>, <<".">>))
              [] bumpType = "minor" ->
                   Ok(Join(<<NumberToString(major), NumberToString(minor + 1),
                             <<"0">>>>, <<".">>))
              [] bumpType = "patch" ->
                   Ok(Join(<<NumberToString(major), NumberToString(minor),
                             NumberToString(patch + 1)>>, <<".">>))
              [] OTHER -> Fail("InvalidBumpType")

(***************************************************************************)
(* String literals of the program                                          *)
(***************************************************************************)
PackageJson == <<"p", "a", "c", "k", "a", "g", "e", ".", "j", "s", "o", "n">>

Develop == <<"d", "e", "v", "e", "l", "o", "p">>

UAT == <<"U", "A", "T">>

VersionPlaceholder == <<"{", "v", "e", "r", "s", "i", "o", "n", "}">>

BuildPrefix == <<"b", "u", "i", "l", "d", ":", " ">>

DefaultTagPrefix == <<"v">>

RevParse == <<"r", "e", "v", "-", "p", "a", "r", "s", "e">>

GitDir == <<"-", "-", "g", "i", "t", "-", "d", "i", "r">>

Fetch == <<"f", "e", "t", "c", "h">>

Switch == <<"s", "w", "i", "t", "c", "h">>

Pull == <<"p", "u", "l", "l">>

Add == <<"a", "d", "d">>

Commit == <<"c", "o", "m", "m", "i", "t">>

DashM == <<"-", "m">>

Tag == <<"t", "a", "g">>

Push == <<"p", "u", "s", "h">>

Origin == <<"o", "r", "i", "g", "i", "n">>

DashTags == <<"-", "-", "t", "a", "g", "s">>

(***************************************************************************)
(* The manifest store                                                      *)
(*                                                                         *)
(* A file is absent, holds text that is not JSON, or holds a JSON object;  *)
(* JSON.parse / JSON.stringify of an object is modelled as the function    *)
(* from its keys to their values.  Values are strings; a missing version   *)
(* and the empty version are the falsy versions.                           *)
(***************************************************************************)
AbsentFile == [kind |-> "absent", doc |-> <<>>]

MalformedFile == [kind |-> "malformed", doc |-> <<>>]

ObjectFile(d) == [kind |-> "object", doc |-> d]

FileAt(files, path) == IF path \in DOMAIN files THEN files[path] ELSE AbsentFile

getCurrentVersion(files, packageFile) ==
  LET f == FileAt(files, packageFile) IN
    IF f.kind = "absent" THEN Fail("PackageFileNotFound")
    ELSE IF f.kind = "malformed" THEN Fail("SyntaxError")
    ELSE IF "version" \notin DOMAIN f.doc \/ f.doc["version"] = <<>>
      THEN Fail("NoVersionField")
    ELSE Ok(f.doc["version"])

\* the variant that writes a fresh document holding only the version
SetVersion_dropOthers(doc, newVersion) ==
  [k \in {"version"} |-> newVersion]

\* packageJson.version = newVersion
SetVersion(doc, newVersion) ==
  [k \in (DOMAIN doc) \cup {"version"} |->
     IF k = "version" THEN newVersion ELSE doc[k]]

\* the files after updatePackageVersion, and its error; ioOk is whether
\* writeFile succeeds
updatePackageVersion(files, newVersion, packageFile, ioOk) ==
  LET f == FileAt(files, packageFile) IN
    IF f.kind = "absent" THEN [error |-> "ENOENT", files |-> files]
    ELSE IF f.kind = "malformed" THEN [error |-> "SyntaxError", files |-> files]
    ELSE IF ~ioOk THEN [error |-> "WriteFailed", files |-> files]
    ELSE [error |-> NoError,
          files |-> [files EXCEPT ![packageFile] =
                       ObjectFile(SetVersion(f.doc, newVersion))]]

(***************************************************************************)
(* The bump command (cli.ts)                                               *)
(***************************************************************************)
EmptyConfig ==
  [source |-> None, targets |-> None, commitMessageTemplate |-> None,
   packageFile |-> None, createTag |-> None, tagPrefix |-> None]

\* loadConfig: {} when vbump.json is absent or cannot be parsed
loadConfig(cf) == IF cf.kind = "object" THEN cf.config ELSE EmptyConfig

\* the bump type chosen by the --major / --minor / --patch flags
bumpTypeOf(o) ==
  IF o.major THEN Some("major")
  ELSE IF o.minor THEN Some("minor")
  ELSE IF o.patch THEN Some("patch")
  ELSE None

\* options.targets.split(',').map(b => b.trim())
parseTargets(str) ==
  [i \in 1..Len(Split(str, ",")) |-> Trim(Split(str, ",")[i])]

\* let targets = config.branches?.targets; if (options.targets) targets = ...
resolveTargets(o, config) ==
  IF Truthy(o.targets) THEN Some(parseTargets(o.targets[1])) ELSE config.targets

resolvePackageFile(o, config) ==
  OrElse(o.file, OrElse(config.packageFile, Some(PackageJson)))[1]

resolveTagPrefix(o, config) ==
  OrElse(o.tagPrefix, OrElse(config.tagPrefix, Some(DefaultTagPrefix)))[1]

resolveSource(o, config) ==
  OrElse(o.source, OrElse(config.source, Some(Develop)))[1]

resolveCreateTag(o, config) ==
  IF o.tag # None THEN o.tag[1] ELSE Nullish(config.createTag, Some(TRUE))[1]

\* whether building bumpOptions reads the manifest for the template
templateUsed(o, config) ==
  ~Truthy(o.message) /\ Truthy(config.commitMessageTemplate)

\* commitMessage of bumpOptions; version is what getCurrentVersion returned
resolveCommitMessage(o, config, version) ==
  IF Truthy(o.message) THEN o.message
  ELSE IF Truthy(config.commitMessageTemplate)
    THEN Some(Replace(config.commitMessageTemplate[1], VersionPlaceholder, version))
  ELSE None

buildBumpOptions(o, config, version) ==
  [bumpType |-> bumpTypeOf(o)[1],
   branches |-> Some([source |-> Some(resolveSource(o, config)),
                      targets |-> Some(Nullish(resolveTargets(o, config),
                                               Some(<<UAT>>))[1])]),
   commitMessage |-> resolveCommitMessage(o, config, version),
   skipPush |-> Some(o.skipPush),
   skipMerge |-> Some(o.skipMerge),
   packageFile |-> Some(resolvePackageFile(o, config)),
   dryRun |-> Some(o.dryRun),
   createTag |-> Some(resolveCreateTag(o, config)),
   tagPrefix |-> Some(resolveTagPrefix(o, config))]

NoBumpOptions ==
  [bumpType |-> "patch", branches |-> None, commitMessage |-> None,
   skipPush |-> None, skipMerge |-> None, packageFile |-> None,
   dryRun |-> None, createTag |-> None, tagPrefix |-> None]

(***************************************************************************)
(* bumpVersion (index.ts)                                                  *)
(***************************************************************************)
\* the destructuring of the options object with its defaults
Destructure(o) ==
  [bumpType |-> o.bumpType,
   branches |-> Nullish(o.branches,
                        Some([source |-> Some(Develop), targets |-> Some(<<UAT>>)]))[1],
   commitMessage |-> o.commitMessage,
   skipPush |-> Nullish(o.skipPush, Some(FALSE))[1],
   skipMerge |-> Nullish(o.skipMerge, Some(FALSE))[1],
   packageFile |-> Nullish(o.packageFile, Some(PackageJson))[1],
   dryRun |-> Nullish(o.dryRun, Some(FALSE))[1],
   createTag |-> Nullish(o.createTag, Some(TRUE))[1],
   tagPrefix |-> Nullish(o.tagPrefix, Some(DefaultTagPrefix))[1]]

O == Destructure(bumpOptions)

\* const sourceBranch = branches.source || 'develop'
sourceBranchOf(o) == OrElse(o.branches.source, Some(Develop))[1]

\* branches.targets, or the empty list when the merge loop is not entered
targetsOf(o) ==
  IF ~o.skipMerge /\ o.branches.targets # None /\ Len(o.branches.targets[1]) > 0
  THEN o.branches.targets[1] ELSE <<>>

\* const message = commitMessage || `build: ${newVersion}`
messageOf(o, newVersion) ==
  OrElse(o.commitMessage, Some(BuildPrefix \o newVersion))[1]

\* the variant that leaves the prefix out of the tag name
tagNameOf_noPrefix(o, newVersion) == newVersion

tagNameOf(o, newVersion) == o.tagPrefix \o newVersion

GitCommandFailed(args) ==
  [type |-> "GitCommandFailed",
   command |-> <<"g", "i", "t", " ">> \o Join(args, <<" ">>)]

Error(type) == [type |-> type, command |-> <<>>]

GitEntry(args, ok) == [kind |-> "git", by |-> "bumpVersion", args |-> args, ok |-> ok]

ReadEntry(by, path, ok) == [kind |-> "read", by |-> by, args |-> <<path>>, ok |-> ok]

WriteEntry(path, ok) == [kind |-> "write", by |-> "bumpVersion", args |-> <<path>>, ok |-> ok]

\* where bumpVersion continues after each step
\* the variant that does not return early on a dry run
AfterRead_noDryRun(o) == "fetch"

AfterRead(o) == IF o.dryRun THEN "done" ELSE "fetch"

AfterPush(o) == IF targetsOf(o) # <<>> THEN "switchTarget" ELSE "done"

\* the variant that pushes the source branch whatever skipPush says
AfterTag_alwaysPush(o) == "pushSource"

AfterTag(o) == IF ~o.skipPush THEN "pushSource" ELSE AfterPush(o)

\* the variant that never creates the tag
AfterCommit_noTag(o) == AfterTag(o)

AfterCommit(o) == IF o.createTag THEN "tag" ELSE AfterTag(o)

AfterPushSource(o) == IF o.createTag THEN "pushTags" ELSE AfterPush(o)

\* the next iteration of the merge loop, or the switch back after the last one
\* the variant that returns from the last target without switching back
NextTarget_noSwitchBack(o, i) == IF i < Len(targetsOf(o)) THEN "switchTarget" ELSE "done"

NextTarget(o, i) == IF i < Len(targetsOf(o)) THEN "switchTarget" ELSE "switchBack"

AfterMerge(o, i) == IF ~o.skipPush THEN "pushTarget" ELSE NextTarget(o, i)

\* the variant of execGit that swallows a failure and carries on
execGit_swallow(args, ok, next) ==
  /\ log' = Append(log, GitEntry(args, ok))
  /\ pc' = next
  /\ err' = err

\* execGit: issue `git <args>`; a failure is rethrown with the command line
\* and ends bumpVersion, the bump command then exits with status 1
execGit(args, ok, next) ==
  /\ log' = Append(log, GitEntry(args, ok))
  /\ pc' = IF ok THEN next ELSE "exit1"
  /\ err' = IF ok THEN err ELSE GitCommandFailed(args)

\* the variant that reports as old version what the manifest holds on return
VersionInfo_fromFile ==
  [oldVersion |-> fs[O.packageFile].doc["version"], newVersion |-> bv.newVersion]

VersionInfo == [oldVersion |-> bv.currentVersion, newVersion |-> bv.newVersion]

\* a step of bumpVersion that awaits execGit; when it is the last one
\* bumpVersion returns the VersionInfo
GitStep(args, ok, next) ==
  /\ execGit(args, ok, next)
  /\ result' = IF pc' = "done" THEN Some(VersionInfo) ELSE result

\* what `switch` or `pull` on the source branch does to the checked-out
\* manifest: nothing, or (once) it brings in a different version
RemoteVersion == <<"4", ".", "0", ".", "0">>

Incoming(files, path, drift) ==
  IF drift /\ FileAt(files, path).kind = "object"
  THEN [files EXCEPT ![path] = ObjectFile(SetVersion(files[path].doc, RemoteVersion))]
  ELSE files

\* cli.ts 69-119: the action of the bump command up to the call of bumpVersion
BumpAction ==
  /\ pc = "cli"
  /\ LET config == loadConfig(configFile)
         path == resolvePackageFile(opts, config)
         rd == getCurrentVersion(fs, path)
     IN IF bumpTypeOf(opts) = None
        THEN /\ pc' = "exit1"
             /\ err' = Error("MissingBumpKind")
             /\ UNCHANGED <<bumpOptions, log>>
        ELSE IF templateUsed(opts, config)
        THEN /\ log' = Append(log, ReadEntry("cli", path, rd.error = NoError))
             /\ IF rd.error # NoError
                THEN pc' = "exit1" /\ err' = Error(rd.error) /\ UNCHANGED bumpOptions
                ELSE /\ pc' = "probe"
                     /\ bumpOptions' = buildBumpOptions(opts, config, rd.value)
                     /\ UNCHANGED err
        ELSE /\ pc' = "probe"
             /\ bumpOptions' = buildBumpOptions(opts, config, <<>>)
             /\ UNCHANGED <<err, log>>
  /\ UNCHANGED <<calc, store, fs, opts, configFile, bv, repo, result>>

\* index.ts 148-151
IsGitRepository ==
  /\ pc = "probe"
  /\ \E ok \in BOOLEAN :
       /\ log' = Append(log, GitEntry(<<RevParse, GitDir>>, ok))
       /\ pc' = IF ok THEN "read" ELSE "exit1"
       /\ err' = IF ok THEN err ELSE Error("NotAGitRepository")
  /\ UNCHANGED <<calc, store, fs, opts, configFile, bumpOptions, bv, repo, result>>

\* index.ts 153-167: read the version, compute the new one, return on dry run
ReadVersion ==
  /\ pc = "read"
  /\ LET rd == getCurrentVersion(fs, O.packageFile)
         nv == calculateNewVersion(rd.value, O.bumpType)
     IN /\ log' = Append(log, ReadEntry("bumpVersion", O.packageFile, rd.error = NoError))
        /\ IF rd.error # NoError
           THEN pc' = "exit1" /\ err' = Error(rd.error) /\ UNCHANGED <<bv, result>>
           ELSE IF nv.error # NoError
           THEN pc' = "exit1" /\ err' = Error(nv.error) /\ UNCHANGED <<bv, result>>
           ELSE /\ bv' = [bv EXCEPT !.currentVersion = rd.value, !.newVersion = nv.value]
                /\ pc' = AfterRead(O)
                /\ result' = IF pc' = "done"
                             THEN Some([oldVersion |-> rd.value, newVersion |-> nv.value])
                             ELSE result
                /\ UNCHANGED err
  /\ UNCHANGED <<calc, store, fs, opts, configFile, bumpOptions, repo>>

\* index.ts 171
FetchStep ==
  /\ pc = "fetch"
  /\ \E ok \in BOOLEAN : GitStep(<<Fetch>>, ok, "switchSource")
  /\ UNCHANGED <<calc, store, fs, opts, configFile, bumpOptions, bv, repo>>

\* index.ts 174-176
SwitchSource ==
  /\ pc = "switchSource"
  /\ \E ok \in BOOLEAN, drift \in BOOLEAN :
       /\ drift => (ok /\ ~bv.drifted /\ repo.head # sourceBranchOf(O))
       /\ GitStep(<<Switch, sourceBranchOf(O)>>, ok, "pullSource")
       /\ repo' = IF ok THEN [repo EXCEPT !.head = sourceBranchOf(O)] ELSE repo
       /\ fs' = Incoming(fs, O.packageFile, drift)
       /\ bv' = [bv EXCEPT !.drifted = bv.drifted \/ drift]
  /\ UNCHANGED <<calc, store, opts, configFile, bumpOptions>>

\* index.ts 177
PullSource ==
  /\ pc = "pullSource"
  /\ \E ok \in BOOLEAN, drift \in BOOLEAN :
       /\ drift => (ok /\ ~bv.drifted)
       /\ GitStep(<<Pull>>, ok, "update")
       /\ fs' = Incoming(fs, O.packageFile, drift)
       /\ bv' = [bv EXCEPT !.drifted = bv.drifted \/ drift]
  /\ UNCHANGED <<calc, store, opts, configFile, bumpOptions, repo>>

\* index.ts 181: updatePackageVersion re-reads the document and writes it
UpdateVersion ==
  /\ pc = "update"
  /\ \E ioOk \in BOOLEAN :
       LET r == updatePackageVersion(fs, bv.newVersion, O.packageFile, ioOk)
           readOk == FileAt(fs, O.packageFile).kind = "object"
       IN /\ fs' = r.files
          /\ log' = IF readOk
                    THEN log \o <<ReadEntry("updatePackageVersion", O.packageFile, TRUE),
                                  WriteEntry(O.packageFile, r.error = NoError)>>
                    ELSE Append(log, ReadEntry("updatePackageVersion", O.packageFile, FALSE))
          /\ pc' = IF r.error = NoError THEN "add" ELSE "exit1"
          /\ err' = IF r.error = NoError THEN err ELSE Error(r.error)
  /\ UNCHANGED <<calc, store, opts, configFile, bumpOptions, bv, repo, result>>

\* index.ts 186
AddStep ==
  /\ pc = "add"
  /\ \E ok \in BOOLEAN : GitStep(<<Add, O.packageFile>>, ok, "commit")
  /\ UNCHANGED <<calc, store, fs, opts, configFile, bumpOptions, bv, repo>>

\* index.ts 184, 187
CommitStep ==
  /\ pc = "commit"
  /\ \E ok \in BOOLEAN :
       /\ GitStep(<<Commit, DashM, messageOf(O, bv.newVersion)>>, ok, AfterCommit(O))
       /\ repo' = IF ok
                  THEN [repo EXCEPT !.commits =
                          Append(@, [branch |-> repo.head,
                                     message |-> messageOf(O, bv.newVersion)])]
                  ELSE repo
  /\ UNCHANGED <<calc, store, fs, opts, configFile, bumpOptions, bv>>

\* index.ts 190-194
TagStep ==
  /\ pc = "tag"
  /\ \E ok \in BOOLEAN :
       /\ GitStep(<<Tag, tagNameOf(O, bv.newVersion)>>, ok, AfterTag(O))
       /\ repo' = IF ok
                  THEN [repo EXCEPT !.tags =
                          @ \cup {[name |-> tagNameOf(O, bv.newVersion),
                                   branch |-> repo.head]}]
                  ELSE repo
  /\ UNCHANGED <<calc, store, fs, opts, configFile, bumpOptions, bv>>

\* index.ts 197-199
PushSource ==
  /\ pc = "pushSource"
  /\ \E ok \in BOOLEAN :
       /\ GitStep(<<Push, Origin, sourceBranchOf(O)>>, ok, AfterPushSource(O))
       /\ repo' = IF ok THEN [repo EXCEPT !.pushed = @ \cup {sourceBranchOf(O)}] ELSE repo
  /\ UNCHANGED <<calc, store, fs, opts, configFile, bumpOptions, bv>>

\* index.ts 202-205
PushTags ==
  /\ pc = "pushTags"
  /\ \E ok \in BOOLEAN :
       /\ GitStep(<<Push, Origin, DashTags>>, ok, AfterPush(O))
       /\ repo' = IF ok THEN [repo EXCEPT !.tagsPushed = TRUE] ELSE repo
  /\ UNCHANGED <<calc, store, fs, opts, configFile, bumpOptions, bv>>

\* index.ts 210-212
SwitchTarget ==
  /\ pc = "switchTarget"
  /\ \E ok \in BOOLEAN :
       /\ GitStep(<<Switch, targetsOf(O)[bv.i]>>, ok, "pullTarget")
       /\ repo' = IF ok THEN [repo EXCEPT !.head = targetsOf(O)[bv.i]] ELSE repo
  /\ UNCHANGED <<calc, store, fs, opts, configFile, bumpOptions, bv>>

\* index.ts 213
PullTarget ==
  /\ pc = "pullTarget"
  /\ \E ok \in BOOLEAN : GitStep(<<Pull>>, ok, "mergeTarget")
  /\ UNCHANGED <<calc, store, fs, opts, configFile, bumpOptions, bv, repo>>

\* index.ts 216-218
MergeTarget ==
  /\ pc = "mergeTarget"
  /\ \E ok \in BOOLEAN :
       /\ GitStep(<<Pull, Origin, sourceBranchOf(O)>>, ok, AfterMerge(O, bv.i))
       /\ repo' = IF ok
                  THEN [repo EXCEPT !.merged = @ \cup {<<sourceBranchOf(O), repo.head>>}]
                  ELSE repo
       /\ bv' = IF pc' = "switchTarget" THEN [bv EXCEPT !.i = bv.i + 1] ELSE bv
  /\ UNCHANGED <<calc, store, fs, opts, configFile, bumpOptions>>

\* index.ts 218-222
PushTarget ==
  /\ pc = "pushTarget"
  /\ \E ok \in BOOLEAN :
       /\ GitStep(<<Push, Origin, targetsOf(O)[bv.i]>>, ok, NextTarget(O, bv.i))
       /\ repo' = IF ok THEN [repo EXCEPT !.pushed = @ \cup {targetsOf(O)[bv.i]}] ELSE repo
       /\ bv' = IF pc' = "switchTarget" THEN [bv EXCEPT !.i = bv.i + 1] ELSE bv
  /\ UNCHANGED <<calc, store, fs, opts, configFile, bumpOptions>>

\* index.ts 224-231
SwitchBack ==
  /\ pc = "switchBack"
  /\ \E ok \in BOOLEAN :
       /\ GitStep(<<Switch, sourceBranchOf(O)>>, ok, "done")
       /\ repo' = IF ok THEN [repo EXCEPT !.head = sourceBranchOf(O)] ELSE repo
  /\ UNCHANGED <<calc, store, fs, opts, configFile, bumpOptions, bv>>

Next ==
  \/ BumpAction
  \/ IsGitRepository
  \/ ReadVersion
  \/ FetchStep
  \/ SwitchSource
  \/ PullSource
  \/ UpdateVersion
  \/ AddStep
  \/ CommitStep
  \/ TagStep
  \/ PushSource
  \/ PushTags
  \/ SwitchTarget
  \/ PullTarget
  \/ MergeTarget
  \/ PushTarget
  \/ SwitchBack

(***************************************************************************)
(* Inputs of the bump command                                              *)
(***************************************************************************)
Main == <<"m", "a", "i", "n">>

Rel == <<"r", "e", "l">>

Work == <<"w", "o", "r", "k">>

AltPackageFile == <<"p", ".", "j", "s", "o", "n">>

V123 == <<"1", ".", "2", ".", "3">>

Doc(name, version) == [k \in {"name", "version"} |-> IF k = "name" THEN name ELSE version]

NameOnly(name) == [k \in {"name"} |-> name]

\* the branches x1, x2, ... of the configuration file with targets
TargetNames == [i \in 1..MaxTargets |-> <<"x">> \o NatToString(i)]

\* the bump flags given: none, or one of --major, --minor, --patch
BumpFlags ==
  {[major |-> FALSE, minor |-> FALSE, patch |-> FALSE],
   [major |-> TRUE, minor |-> FALSE, patch |-> FALSE],
   [major |-> FALSE, minor |-> TRUE, patch |-> FALSE],
   [major |-> FALSE, minor |-> FALSE, patch |-> TRUE]}

MakeOpts(f, message, source, targets, skipPush, skipMerge, file, dryRun, tag, tagPrefix) ==
  [major |-> f.major, minor |-> f.minor, patch |-> f.patch,
   message |-> message, source |-> source, targets |-> targets,
   skipPush |-> skipPush, skipMerge |-> skipMerge, file |-> file,
   dryRun |-> dryRun, tag |-> tag, tagPrefix |-> tagPrefix]

Options ==
  {MakeOpts(f, message, source, targets, skipPush, skipMerge, None, dryRun, tag, tagPrefix) :
     f \in BumpFlags,
     message \in {None, Some(<<"f", "i", "x">>)},
     source \in {None, Some(Main)},
     targets \in {None, Some(<<"a", ",", " ", "b">>)},
     skipPush \in BOOLEAN, skipMerge \in BOOLEAN, dryRun \in BOOLEAN,
     tag \in {None, Some(FALSE)},
     tagPrefix \in {None, Some(<<"r">>)}}

NoOptions ==
  MakeOpts([major |-> FALSE, minor |-> FALSE, patch |-> FALSE],
           None, None, None, FALSE, FALSE, None, FALSE, None, None)

AbsentConfig == [kind |-> "absent", config |-> EmptyConfig]

MalformedConfig == [kind |-> "malformed", config |-> EmptyConfig]

ObjectConfig(c) == [kind |-> "object", config |-> c]

ConfigFiles ==
  {AbsentConfig, MalformedConfig, ObjectConfig(EmptyConfig),
   ObjectConfig([source |-> Some(Rel), targets |-> Some(TargetNames),
                 commitMessageTemplate |->
                   Some(<<"r", " ">> \o VersionPlaceholder \o <<"!">>),
                 packageFile |-> None, createTag |-> None, tagPrefix |-> None]),
   ObjectConfig([source |-> None, targets |-> Some(<<>>),
                 commitMessageTemplate |-> None,
                 packageFile |-> Some(AltPackageFile),
                 createTag |-> Some(FALSE), tagPrefix |-> Some(<<"p">>)])}

Paths == {PackageJson, AltPackageFile}

ManifestFiles ==
  {AbsentFile,
   ObjectFile(Doc(<<"a">>, V123)),
   ObjectFile(NameOnly(<<"a">>)),
   ObjectFile(Doc(<<"a">>, <<"1", ".", "x">>))}

AltFile == ObjectFile(Doc(<<"b">>, <<"0", ".", "9", ".", "9">>))

NoFiles == [p \in Paths |-> AbsentFile]

StoreIdle == [ops |-> <<>>]

BumpIdle ==
  /\ opts = NoOptions
  /\ configFile = AbsentConfig
  /\ bumpOptions = NoBumpOptions
  /\ pc = "idle"
  /\ bv = [currentVersion |-> <<>>, newVersion |-> <<>>, i |-> 1, drifted |-> FALSE]
  /\ log = <<>>
  /\ repo = [head |-> Develop, head0 |-> Develop, commits |-> <<>>, tags |-> {},
             pushed |-> {}, tagsPushed |-> FALSE, merged |-> {}]
  /\ err = Error(NoError)
  /\ result = None

Init ==
  /\ calc = [input |-> <<>>, bumpType |-> "patch", done |-> FALSE, out |-> Ok(<<>>)]
  /\ store = StoreIdle
  /\ fs \in {[p \in Paths |-> IF p = PackageJson THEN f ELSE AltFile] : f \in ManifestFiles}
  /\ opts \in Options
  /\ configFile \in ConfigFiles
  /\ bumpOptions = NoBumpOptions
  /\ pc = "cli"
  /\ bv = [currentVersion |-> <<>>, newVersion |-> <<>>, i |-> 1, drifted |-> FALSE]
  /\ log = <<>>
  /\ repo \in {[head |-> h, head0 |-> h, commits |-> <<>>, tags |-> {}, pushed |-> {},
                tagsPushed |-> FALSE, merged |-> {}] : h \in {Develop, Work}}
  /\ err = Error(NoError)
  /\ result = None

Spec == Init /\ [][Next]_vars

(***************************************************************************)
(* Inputs of calculateNewVersion                                           *)
(***************************************************************************)
\* components that are canonical non-negative integers
NumComponents == {NatToString(n) : n \in 0..MaxNum}

\* components that are not: empty, signed, padded, non-numeric, suffixed
OddComponents ==
  {<<>>, <<"a">>, <<"-", "2">>, <<"+", "2">>, <<" ", "1">>, <<"1", "a">>,
   <<"3", "-", "b">>, <<"3", "+", "b">>, <<"-">>}

Components == NumComponents \cup OddComponents

\* components used for the inputs with one, two or four parts
FewComponents == {<<>>, <<"1">>, <<"2">>, <<"a">>}

CalcInputs ==
  {Join(<<a, b, c>>, <<".">>) : a \in Components, b \in Components, c \in Components}
  \cup FewComponents
  \cup {Join(<<a, b>>, <<".">>) : a \in FewComponents, b \in FewComponents}
  \cup {Join(<<a, b, c, d>>, <<".">>) :
          a \in FewComponents, b \in FewComponents,
          c \in FewComponents, d \in FewComponents}

InitCalc ==
  /\ \E s \in CalcInputs, b \in BumpTypes :
       calc = [input |-> s, bumpType |-> b, done |-> FALSE, out |-> Ok(<<>>)]
  /\ store = StoreIdle
  /\ fs = NoFiles
  /\ BumpIdle

CalculateNewVersion ==
  /\ ~calc.done
  /\ calc' = [calc EXCEPT !.done = TRUE,
                          !.out = calculateNewVersion(calc.input, calc.bumpType)]
  /\ UNCHANGED <<store, fs, opts, configFile, bumpOptions, pc, bv, log, repo, err, result>>

NextCalc == CalculateNewVersion

SpecCalc == InitCalc /\ [][NextCalc]_vars

(***************************************************************************)
(* The manifest store on its own: updatePackageVersion and                 *)
(* getCurrentVersion applied to bounded manifests                          *)
(***************************************************************************)
StoreKeys == {"name", "version", "private"}

StoreValues(k) ==
  IF k = "name" THEN {<<"a">>, <<"b">>}
  ELSE IF k = "version" THEN {<<>>, V123}
  ELSE {<<"t">>}

StoreDocs ==
  UNION {{d \in [K -> UNION {StoreValues(k) : k \in StoreKeys}] :
            \A k \in K : d[k] \in StoreValues(k)} : K \in SUBSET StoreKeys}

StoreFiles == {AbsentFile, MalformedFile} \cup {ObjectFile(d) : d \in StoreDocs}

\* versions written: results of calculateNewVersion
StoreVersions == {<<"2", ".", "0", ".", "0">>, <<"1", ".", "2", ".", "1", "0">>}

InitStore ==
  /\ calc = [input |-> <<>>, bumpType |-> "patch", done |-> FALSE, out |-> Ok(<<>>)]
  /\ store = StoreIdle
  /\ fs \in {[p \in Paths |-> IF p = PackageJson THEN f ELSE g] :
               f \in StoreFiles, g \in {AbsentFile, AltFile}}
  /\ BumpIdle

StoreUpdate ==
  /\ Len(store.ops) < MaxOps
  /\ \E v \in StoreVersions, path \in Paths, ioOk \in BOOLEAN :
       LET r == updatePackageVersion(fs, v, path, ioOk) IN
         /\ fs' = r.files
         /\ store' = [ops |-> Append(store.ops,
                        [op |-> "update", path |-> path, arg |-> v,
                         error |-> r.error, value |-> <<>>,
                         before |-> fs, after |-> r.files])]
  /\ UNCHANGED <<calc, opts, configFile, bumpOptions, pc, bv, log, repo, err, result>>

StoreGet ==
  /\ Len(store.ops) < MaxOps
  /\ \E path \in Paths :
       LET r == getCurrentVersion(fs, path) IN
         store' = [ops |-> Append(store.ops,
                     [op |-> "get", path |-> path, arg |-> <<>>,
                      error |-> r.error, value |-> r.value,
                      before |-> fs, after |-> fs])]
  /\ UNCHANGED <<calc, fs, opts, configFile, bumpOptions, pc, bv, log, repo, err, result>>

NextStore == StoreUpdate \/ StoreGet

SpecStore == InitStore /\ [][NextStore]_vars

(***************************************************************************)
(* C9                                                                      *)
(***************************************************************************)
\* C9: a successful updatePackageVersion(v, path) makes the next
\* getCurrentVersion(path) return v, and it changes nothing but the
\* top-level version field of the manifest at path: every other field keeps
\* its value, no other field appears, other files are untouched
C9_RoundTrip ==
  /\ \A i \in 1..(Len(store.ops) - 1) :
       (/\ store.ops[i].op = "update" /\ store.ops[i].error = NoError
        /\ store.ops[i + 1].op = "get" /\ store.ops[i + 1].path = store.ops[i].path)
       => (store.ops[i + 1].error = NoError /\ store.ops[i + 1].value = store.ops[i].arg)
  /\ \A i \in 1..Len(store.ops) :
       (store.ops[i].op = "update" /\ store.ops[i].error = NoError) =>
         LET b == store.ops[i].before[store.ops[i].path].doc
             a == store.ops[i].after[store.ops[i].path]
         IN /\ a.kind = "object"
            /\ DOMAIN a.doc = (DOMAIN b) \cup {"version"}
            /\ \A k \in (DOMAIN b) \ {"version"} : a.doc[k] = b[k]
            /\ a.doc["version"] = store.ops[i].arg
            /\ \A q \in Paths \ {store.ops[i].path} :
                 store.ops[i].after[q] = store.ops[i].before[q]

\* a manifest with other fields and an older version was updated and then read
C9_Witness ==
  /\ Len(store.ops) = 2
  /\ store.ops[1].op = "update" /\ store.ops[1].error = NoError
  /\ store.ops[1].path = PackageJson
  /\ store.ops[1].before[PackageJson].doc = [k \in StoreKeys |->
        IF k = "name" THEN <<"a">> ELSE IF k = "version" THEN V123 ELSE <<"t">>]
  /\ store.ops[2].op = "get" /\ store.ops[2].path = PackageJson
  /\ store.ops[2].value = <<"2", ".", "0", ".", "0">>

(***************************************************************************)
(* Option resolution on its own: the bump command up to the call of        *)
(* bumpVersion, over command lines and configuration files whose fields    *)
(* are absent, empty or set                                                *)
(***************************************************************************)
ResolveOptions ==
  {MakeOpts([major |-> FALSE, minor |-> TRUE, patch |-> FALSE],
            message, source, targets, FALSE, FALSE, file, FALSE, tag, tagPrefix) :
     message \in {None, Some(<<"f", "i", "x">>)},
     source \in {None, Some(<<>>), Some(Main)},
     targets \in {None, Some(<<>>), Some(<<"a", ",", " ", "b", ",">>)},
     file \in {None, Some(AltPackageFile)},
     tag \in {None, Some(TRUE), Some(FALSE)},
     tagPrefix \in {None, Some(<<>>), Some(<<"r", "e", "l", "-">>)}}

ResolveConfigs ==
  {[source |-> source, targets |-> targets, commitMessageTemplate |-> template,
    packageFile |-> file, createTag |-> createTag, tagPrefix |-> tagPrefix] :
     source \in {None, Some(<<>>), Some(Rel)},
     targets \in {None, Some(<<>>), Some(<<<<"x">>>>)},
     template \in {None, Some(<<"r", " ">> \o VersionPlaceholder)},
     file \in {None, Some(<<"q">>)},
     createTag \in {None, Some(TRUE), Some(FALSE)},
     tagPrefix \in {None, Some(<<>>), Some(<<"r">>)}}

InitResolve ==
  /\ calc = [input |-> <<>>, bumpType |-> "patch", done |-> FALSE, out |-> Ok(<<>>)]
  /\ store = StoreIdle
  /\ fs = [p \in Paths |-> IF p = PackageJson THEN ObjectFile(Doc(<<"a">>, V123)) ELSE AltFile]
  /\ opts \in ResolveOptions
  /\ configFile \in {AbsentConfig} \cup {ObjectConfig(c) : c \in ResolveConfigs}
  /\ bumpOptions = NoBumpOptions
  /\ pc = "cli"
  /\ bv = [currentVersion |-> <<>>, newVersion |-> <<>>, i |-> 1, drifted |-> FALSE]
  /\ log = <<>>
  /\ repo = [head |-> Develop, head0 |-> Develop, commits |-> <<>>, tags |-> {},
             pushed |-> {}, tagsPushed |-> FALSE, merged |-> {}]
  /\ err = Error(NoError)
  /\ result = None

NextResolve == BumpAction

SpecResolve == InitResolve /\ [][NextResolve]_vars

(***************************************************************************)
(* C6                                                                      *)
(***************************************************************************)
\* override if given, else the file's value if present, else the default
Precedence(override, persisted, default) ==
  IF override # None THEN override[1]
  ELSE IF persisted # None THEN persisted[1]
  ELSE default

\* C6: each of source branch, target branches, manifest path, createTag and
\* tagPrefix resolves to the command-line override if one is given, else to
\* the value in vbump.json if the field is present, else to the default
C6_Precedence ==
  pc = "probe" =>
    LET c == loadConfig(configFile)
        b == bumpOptions
    IN /\ (opts.source # None \/ c.source # None) =>
             b.branches[1].source[1] = Precedence(opts.source, c.source, <<>>)
       /\ (opts.targets # None \/ c.targets # None) =>
             b.branches[1].targets[1] =
               IF opts.targets # None THEN parseTargets(opts.targets[1])
               ELSE c.targets[1]
       /\ b.packageFile[1] = Precedence(opts.file, c.packageFile, PackageJson)
       /\ b.createTag[1] = Precedence(opts.tag, c.createTag, TRUE)
       /\ b.tagPrefix[1] = Precedence(opts.tagPrefix, c.tagPrefix, DefaultTagPrefix)

(***************************************************************************)
(* C1, C2, C5, C7, C8, C10                                                 *)
(***************************************************************************)
\* bumpVersion has been called
Called == pc \notin {"idle", "cli"} /\ bumpOptions # NoBumpOptions

IsGit(e, args) == e.kind = "git" /\ e.args = args

IsSub(e, sub) == e.kind = "git" /\ e.args[1] = sub

\* what bumpVersion itself issued (the command's own read of the manifest
\* for the template comes before the call)
BvLog == SelectSeq(log, LAMBDA e : e.by # "cli")

\* C1: with dryRun = true bumpVersion never writes the manifest, issues no git
\* subcommand but the probe `rev-parse --git-dir`, leaves the repository
\* alone, and returns {oldVersion, newVersion} computed from the unchanged
\* manifest, so that a second dry run returns the same
C1_DryRunFrame ==
  [][(Called /\ O.dryRun) =>
       /\ fs' = fs
       /\ repo' = repo
       /\ \A i \in (Len(log) + 1)..Len(log') :
            \/ log'[i].kind = "read" /\ log'[i].by = "bumpVersion"
            \/ IsGit(log'[i], <<RevParse, GitDir>>)
       /\ pc' \in {"read", "done", "exit1"}
       /\ pc' = "done" =>
            /\ result' # None
            /\ result'[1].oldVersion = fs[O.packageFile].doc["version"]
            /\ result'[1].newVersion =
                 calculateNewVersion(fs[O.packageFile].doc["version"], O.bumpType).value
            /\ err' = Error(NoError)]_vars

\* a dry run of a command line with targets and a tag has returned
C1_Witness ==
  /\ pc = "done" /\ Called /\ O.dryRun
  /\ O.branches.targets[1] # <<>> /\ O.createTag /\ ~O.skipPush /\ ~O.skipMerge
  /\ result = Some([oldVersion |-> V123, newVersion |-> <<"1", ".", "3", ".", "0">>])
  /\ Len(BvLog) = 2

\* C2: a failed git subcommand or manifest access is the last thing issued:
\* the invocation ends with the error, a failed git subcommand is named in
\* it, the failing step changes nothing, and nothing is undone or issued
\* afterwards
C2_FailFast ==
  /\ [](/\ \A i \in 1..(Len(log) - 1) : log[i].ok
        /\ (log # <<>> /\ ~log[Len(log)].ok) =>
              /\ pc = "exit1"
              /\ result = None
              /\ (log[Len(log)].kind = "git"
                  /\ log[Len(log)].args # <<RevParse, GitDir>>) =>
                    err = [type |-> "GitCommandFailed",
                           command |-> <<"g", "i", "t", " ">>
                                         \o Join(log[Len(log)].args, <<" ">>)])
  /\ [][/\ pc' = "exit1" => (fs' = fs /\ repo' = repo)
        /\ pc = "exit1" => UNCHANGED vars
        /\ \A i \in 1..Len(repo.commits) : repo'.commits[i] = repo.commits[i]
        /\ repo.tags \subseteq repo'.tags]_vars

\* the merge into the first of two targets failed after the commit and the
\* tag were made: the second target and the switch back were not attempted
C2_Witness ==
  /\ pc = "exit1" /\ Called
  /\ Len(targetsOf(O)) = 2 /\ bv.i = 1
  /\ log # <<>>
  /\ log[Len(log)] = GitEntry(<<Pull, Origin, sourceBranchOf(O)>>, FALSE)
  /\ err.command = <<"g", "i", "t", " ", "p", "u", "l", "l", " ",
                     "o", "r", "i", "g", "i", "n", " ">> \o sourceBranchOf(O)
  /\ Len(repo.commits) = 1 /\ repo.tags # {}
  /\ repo.head = targetsOf(O)[1]
  /\ fs[O.packageFile].doc["version"] = bv.newVersion

\* C5: the message given to `commit -m` is the explicit message if there is
\* one, else the configured template with {version} replaced by the new
\* version, else the default template with the new version
C5_CommitMessage ==
  \A i \in 1..Len(log) :
    IsSub(log[i], Commit) =>
      log[i].args[3] =
        IF Truthy(opts.message) THEN opts.message[1]
        ELSE IF Truthy(loadConfig(configFile).commitMessageTemplate)
          THEN Replace(loadConfig(configFile).commitMessageTemplate[1],
                       VersionPlaceholder, bv.newVersion)
        ELSE BuildPrefix \o bv.newVersion

NoOverrides ==
  /\ opts.message = None /\ opts.source = None /\ opts.targets = None
  /\ opts.file = None /\ opts.tag = None /\ opts.tagPrefix = None
  /\ ~opts.skipPush /\ ~opts.skipMerge /\ ~opts.dryRun

\* C7: with no configuration file and no overrides a minor bump of 1.2.3
\* writes 1.3.0, commits "build: 1.3.0", tags v1.3.0, pushes the source
\* branch, and does nothing for any target branch
C7_DefaultScenario ==
  (/\ NoOverrides /\ opts.minor /\ ~opts.major
   /\ configFile = AbsentConfig
   /\ Called /\ bv.currentVersion = V123) =>
     /\ \A i \in 1..Len(log) :
          /\ ~IsGit(log[i], <<Pull, Origin, sourceBranchOf(O)>>)
          /\ IsSub(log[i], Switch) => (i <= 4 /\ log[i].args[2] = sourceBranchOf(O))
          /\ IsSub(log[i], Push) =>
               log[i].args[3] \in {sourceBranchOf(O), DashTags}
     /\ pc = "done" =>
          /\ fs[PackageJson].doc["version"] = <<"1", ".", "3", ".", "0">>
          /\ \E i \in 1..Len(log) :
               IsGit(log[i], <<Commit, DashM, BuildPrefix \o <<"1", ".", "3", ".", "0">>>>)
          /\ \E i \in 1..Len(log) :
               IsGit(log[i], <<Tag, <<"v", "1", ".", "3", ".", "0">>>>)
          /\ \E i \in 1..Len(log) :
               IsGit(log[i], <<Push, Origin, sourceBranchOf(O)>>)

\* C8: when neither the command line nor the configuration file names a
\* source branch, the branch checked out at invocation is the source branch:
\* no other branch is switched to before the commit, and the commit, the tag
\* and the source push are made on it
C8_CurrentBranchIsSource ==
  (opts.source = None /\ loadConfig(configFile).source = None /\ Called) =>
     /\ \A i \in 1..Len(repo.commits) : repo.commits[i].branch = repo.head0
     /\ \A t \in repo.tags : t.branch = repo.head0
     /\ \A i \in 1..Len(log) :
          (IsSub(log[i], Switch) /\ i <= 4) => log[i].args[2] = repo.head0

\* the git subcommands and manifest accesses of the source-branch phase
SourcePhase ==
  <<GitEntry(<<RevParse, GitDir>>, TRUE),
    ReadEntry("bumpVersion", O.packageFile, TRUE),
    GitEntry(<<Fetch>>, TRUE),
    GitEntry(<<Switch, sourceBranchOf(O)>>, TRUE),
    GitEntry(<<Pull>>, TRUE),
    ReadEntry("updatePackageVersion", O.packageFile, TRUE),
    WriteEntry(O.packageFile, TRUE),
    GitEntry(<<Add, O.packageFile>>, TRUE),
    GitEntry(<<Commit, DashM, messageOf(O, bv.newVersion)>>, TRUE)>>
  \o (IF O.createTag
      THEN <<GitEntry(<<Tag, O.tagPrefix \o bv.newVersion>>, TRUE)>> ELSE <<>>)
  \o (IF ~O.skipPush
      THEN <<GitEntry(<<Push, Origin, sourceBranchOf(O)>>, TRUE)>> ELSE <<>>)
  \o (IF ~O.skipPush /\ O.createTag
      THEN <<GitEntry(<<Push, Origin, DashTags>>, TRUE)>> ELSE <<>>)

\* C10: a non-dry-run bump issues the source-branch phase in the fixed order
\* probe, read, fetch, switch, pull, write, add, commit, tag, push, push
\* --tags, each step only after the previous one succeeded; a successful
\* bump has issued all of it, with one write of the manifest
C10_SourcePhaseOrder ==
  (Called /\ ~O.dryRun) =>
     LET issued == BvLog
         phase == SourcePhase
     IN /\ \A i \in 1..Len(issued) :
             i <= Len(phase) =>
               /\ issued[i].kind = phase[i].kind
               /\ issued[i].args = phase[i].args
               /\ issued[i].by = phase[i].by
               /\ i < Len(issued) => issued[i].ok
        /\ pc = "done" =>
             /\ Len(issued) >= Len(phase)
             /\ \A i \in 1..Len(issued) : issued[i].ok
             /\ Cardinality({i \in 1..Len(issued) : issued[i].kind = "write"}) = 1

\* a bump with a tag, pushes and a merge has completed
C10_Witness ==
  /\ pc = "done" /\ Called /\ ~O.dryRun
  /\ O.createTag /\ ~O.skipPush /\ targetsOf(O) # <<>>
  /\ Len(BvLog) > Len(SourcePhase)
  /\ result # None

(***************************************************************************)
(* C11                                                                     *)
(***************************************************************************)
\* switch, pull, merge and push for each target in list order
RECURSIVE TargetSteps(_, _, _)
TargetSteps(targets, source, push) ==
  IF targets = <<>> THEN <<>>
  ELSE <<GitEntry(<<Switch, Head(targets)>>, TRUE),
         GitEntry(<<Pull>>, TRUE),
         GitEntry(<<Pull, Origin, source>>, TRUE)>>
       \o (IF push THEN <<GitEntry(<<Push, Origin, Head(targets)>>, TRUE)>> ELSE <<>>)
       \o TargetSteps(Tail(targets), source, push)

\* the git subcommands of the merge phase
MergePhase ==
  IF ~O.skipMerge /\ O.branches.targets # None /\ O.branches.targets[1] # <<>>
  THEN TargetSteps(O.branches.targets[1], sourceBranchOf(O), ~O.skipPush)
       \o <<GitEntry(<<Switch, sourceBranchOf(O)>>, TRUE)>>
  ELSE <<>>

\* C11: after the source-branch phase bumpVersion issues, for each target in
\* list order and one target after the other, switch <target>, pull, pull
\* origin <source> and (unless skipPush) push origin <target>, then switch
\* <source> as the last subcommand; with skipMerge or an empty target list it
\* issues nothing after the source-branch phase
C11_MergeLoopOrder ==
  (Called /\ ~O.dryRun) =>
     LET issued == BvLog
         n == Len(SourcePhase)
         merge == MergePhase
     IN /\ Len(issued) <= n + Len(merge)
        /\ \A i \in (n + 1)..Len(issued) :
             /\ issued[i].kind = "git"
             /\ issued[i].args = merge[i - n].args
             /\ i < Len(issued) => issued[i].ok
        /\ pc = "done" => Len(issued) = n + Len(merge)

\* a bump into two targets with pushes has completed with the switch back
C11_Witness ==
  /\ pc = "done" /\ Called /\ ~O.dryRun /\ ~O.skipPush /\ ~O.skipMerge
  /\ Len(O.branches.targets[1]) >= 2
  /\ Len(BvLog) = Len(SourcePhase) + 4 * Len(O.branches.targets[1]) + 1
  /\ log[Len(log)] = GitEntry(<<Switch, sourceBranchOf(O)>>, TRUE)
  /\ repo.head = sourceBranchOf(O)

(***************************************************************************)
(* C12                                                                     *)
(***************************************************************************)
\* C12: in a non-dry-run bump `tag` is issued at most once, only when
\* createTag is true and only after the commit succeeded, with the name
\* tagPrefix followed by the version written to the manifest; a completed
\* bump has issued it exactly when createTag is true; without createTag
\* neither `tag` nor `push origin --tags` is issued
C12_TagGating ==
  (Called /\ ~O.dryRun) =>
     LET tagged == {i \in 1..Len(log) : IsSub(log[i], Tag)} IN
       /\ Cardinality(tagged) <= 1
       /\ \A i \in tagged :
            /\ O.createTag
            /\ i > 1 /\ IsSub(log[i - 1], Commit) /\ log[i - 1].ok
            /\ log[i].args = <<Tag, O.tagPrefix \o fs[O.packageFile].doc["version"]>>
            /\ log[i].args = <<Tag, O.tagPrefix \o bv.newVersion>>
       /\ ~O.createTag =>
            /\ tagged = {}
            /\ repo.tags = {}
            /\ \A i \in 1..Len(log) : ~IsGit(log[i], <<Push, Origin, DashTags>>)
       /\ pc = "done" =>
            /\ (tagged # {}) <=> O.createTag
            /\ O.createTag =>
                 repo.tags = {[name |-> O.tagPrefix \o result[1].newVersion,
                               branch |-> sourceBranchOf(O)]}

\* a patch bump of 1.2.3 with the prefix override r has completed with the
\* tag r1.2.4
C12_Witness ==
  /\ pc = "done" /\ Called /\ ~O.dryRun /\ O.createTag
  /\ O.tagPrefix = <<"r">>
  /\ \E i \in 1..Len(log) : IsGit(log[i], <<Tag, <<"r", "1", ".", "2", ".", "4">>>>)
  /\ fs[O.packageFile].doc["version"] = <<"1", ".", "2", ".", "4">>

(***************************************************************************)
(* C13                                                                     *)
(***************************************************************************)
CountGit(args) == Cardinality({i \in 1..Len(log) : IsGit(log[i], args)})

\* the target branches the merge loop goes through
MergeTargets ==
  IF ~O.skipMerge /\ O.branches.targets # None THEN O.branches.targets[1] ELSE <<>>

\* C13: with skipPush no `push` of any kind is issued while the commit, the
\* tag and the merges are still made; without skipPush a completed bump has
\* issued `push origin <source>` once, `push origin --tags` exactly when a
\* tag was created, and `push origin <target>` once for each merged target,
\* each right after that target's merge, and no other push
C13_PushGating ==
  (Called /\ ~O.dryRun) =>
     LET pushes == {i \in 1..Len(log) : IsSub(log[i], Push)}
         targets == MergeTargets
     IN /\ O.skipPush =>
             /\ pushes = {}
             /\ repo.pushed = {} /\ ~repo.tagsPushed
             /\ pc = "done" =>
                  /\ Len(repo.commits) = 1
                  /\ O.createTag => repo.tags # {}
                  /\ \A k \in 1..Len(targets) :
                       <<sourceBranchOf(O), targets[k]>> \in repo.merged
        /\ ~O.skipPush =>
             /\ CountGit(<<Push, Origin, sourceBranchOf(O)>>) <= 1
             /\ CountGit(<<Push, Origin, DashTags>>) <= 1
             /\ \A i \in pushes :
                  \/ log[i].args = <<Push, Origin, sourceBranchOf(O)>>
                  \/ log[i].args = <<Push, Origin, DashTags>>
                       /\ \E j \in 1..(i - 1) : IsSub(log[j], Tag) /\ log[j].ok
                  \/ \E k \in 1..Len(targets) :
                       /\ log[i].args = <<Push, Origin, targets[k]>>
                       /\ IsGit(log[i - 1], <<Pull, Origin, sourceBranchOf(O)>>)
                       /\ log[i - 1].ok
                       /\ IsGit(log[i - 3], <<Switch, targets[k]>>)
             /\ pc = "done" =>
                  /\ CountGit(<<Push, Origin, sourceBranchOf(O)>>) = 1
                  /\ CountGit(<<Push, Origin, DashTags>>) = 1 <=> repo.tags # {}
                  /\ \A k \in 1..Len(targets) :
                       CountGit(<<Push, Origin, targets[k]>>) = 1

\* a bump with skipPush has committed, tagged and merged into two targets
\* without any push
C13_Witness ==
  /\ pc = "done" /\ Called /\ ~O.dryRun /\ O.skipPush /\ O.createTag
  /\ Len(MergeTargets) >= 2
  /\ Len(repo.commits) = 1 /\ repo.tags # {}
  /\ Cardinality(repo.merged) = Len(MergeTargets)
  /\ \A i \in 1..Len(log) : ~IsSub(log[i], Push)

(***************************************************************************)
(* C14                                                                     *)
(***************************************************************************)
\* C14: whenever a --targets override is present, the empty string and
\* strings with a trailing comma included, the resolved target list is the
\* override split on commas with each element trimmed, empty elements kept,
\* and the targets of the configuration file are not used
C14_TargetOverride ==
  (pc = "probe" /\ opts.targets # None) =>
     /\ bumpOptions.branches[1].targets[1] = parseTargets(opts.targets[1])
     /\ opts.targets[1] = <<>> =>
          bumpOptions.branches[1].targets[1] = <<<<>>>>
     /\ opts.targets[1] = <<"a", ",", " ", "b", ",">> =>
          bumpOptions.branches[1].targets[1] = <<<<"a">>, <<"b">>, <<>>>>

(***************************************************************************)
(* C15                                                                     *)
(***************************************************************************)
\* C15: a non-dry-run bumpVersion reads the manifest version once, right
\* after the probe and before fetch, switch and pull (updatePackageVersion
\* later re-reads the document only to overwrite its version); the version
\* written, the one in the tag name and the returned newVersion are
\* calculateNewVersion of the value read then, and the returned oldVersion is
\* that value, whatever switch and pull did to the manifest in between
C15_VersionReadOnce ==
  /\ []((Called /\ ~O.dryRun) =>
          LET issued == BvLog
              new == calculateNewVersion(bv.currentVersion, O.bumpType).value
          IN /\ \A i \in 1..Len(issued) :
                  /\ (issued[i].kind = "read" /\ issued[i].by = "bumpVersion") => i = 2
                  /\ (IsSub(issued[i], Fetch) \/ IsSub(issued[i], Switch)
                      \/ IsSub(issued[i], Pull)) => i > 2
                  /\ (issued[i].kind = "write" /\ issued[i].ok) =>
                        fs[O.packageFile].doc["version"] = new
                  /\ IsSub(issued[i], Tag) => issued[i].args[2] = O.tagPrefix \o new
             /\ pc = "done" =>
                  result = Some([oldVersion |-> bv.currentVersion, newVersion |-> new]))
  /\ [][/\ (pc = "read" /\ pc' = "fetch") =>
             bv'.currentVersion = fs[O.packageFile].doc["version"]
        /\ pc \notin {"idle", "cli", "probe", "read"} =>
             bv'.currentVersion = bv.currentVersion]_vars

\* a patch bump read 1.2.3, the pull brought in another version, and the bump
\* completed writing 1.2.4 and returning 1.2.3 as the old version
C15_Witness ==
  /\ pc = "done" /\ Called /\ ~O.dryRun /\ bv.drifted
  /\ result = Some([oldVersion |-> V123, newVersion |-> <<"1", ".", "2", ".", "4">>])
  /\ fs[O.packageFile].doc["version"] = <<"1", ".", "2", ".", "4">>
  /\ O.createTag

(***************************************************************************)
(* C3, C4                                                                  *)
(***************************************************************************)
VersionString(x, y, z) ==
  Join(<<NatToString(x), NatToString(y), NatToString(z)>>, <<".">>)

\* exactly three dot-separated components, each a non-empty run of digits
CountDots(s) == Cardinality({i \in 1..Len(s) : s[i] = "."})

WellFormedVersion(s) ==
  /\ s # <<>>
  /\ \A i \in 1..Len(s) : IsDigit(s[i]) \/ s[i] = "."
  /\ CountDots(s) = 2
  /\ s[1] # "." /\ s[Len(s)] # "."
  /\ \A i \in 1..(Len(s) - 1) : ~(s[i] = "." /\ s[i + 1] = ".")

\* C3: for every version "X.Y.Z" of non-negative integers calculateNewVersion
\* returns (X+1).0.0 for major, X.(Y+1).0 for minor and X.Y.(Z+1) for patch
C3_BumpRule ==
  (calc.done /\ WellFormedVersion(calc.input)) =>
    \A x \in 0..MaxNum, y \in 0..MaxNum, z \in 0..MaxNum :
      calc.input = VersionString(x, y, z) =>
         /\ calc.out.error = NoError
         /\ calc.bumpType = "major" => calc.out.value = VersionString(x + 1, 0, 0)
         /\ calc.bumpType = "minor" => calc.out.value = VersionString(x, y + 1, 0)
         /\ calc.bumpType = "patch" => calc.out.value = VersionString(x, y, z + 1)

\* a minor bump of 9.9.9 has been computed: the bumped tier rolls over to two
\* digits without carrying into the major tier
C3_Witness ==
  /\ calc.done
  /\ calc.input = <<"9", ".", "9", ".", "9">>
  /\ calc.bumpType = "minor"
  /\ calc.out.value = <<"9", ".", "1", "0", ".", "0">>

\* C4: every input that is not three dot-separated non-negative integers is
\* rejected with an invalid-version-format error
C4_RejectsMalformed ==
  (calc.done /\ ~WellFormedVersion(calc.input)) =>
     calc.out.error = "InvalidVersionFormat"

====
